---------------------------- MODULE Spec2Model ----------------------------
(***************************************************************************)
(* hooks/copy_source_markdown.py: the two documentation-build hooks.       *)
(*                                                                         *)
(*   on_page_content  prepends a "view markdown source" link to a page's   *)
(*                    rendered HTML (a pure function of the page's source  *)
(*                    path and HTML);                                      *)
(*   on_post_build    copies every *.md below docs_dir to the same         *)
(*                    relative path below site_dir.                        *)
(*                                                                         *)
(* Strings are sequences of one-character strings.  A filesystem path of   *)
(* the copier is a sequence of component names, <<>> being the root.       *)
(* Paths are POSIX paths (pathlib.PosixPath).                              *)
(***************************************************************************)
EXTENDS Naturals, Sequences, FiniteSets, TLC

VARIABLES
    \* ---- on_page_content: one call of the hook ----
    page_pc,      \* "idle" | "returned" | "raised"
    src_path,     \* page.file.src_path of the last call
    html,         \* the html argument of the last call
    result,       \* what the last call returned (or the error it raised)
    prev_result,  \* what the call before it returned, when it had the same arguments
    \* ---- on_post_build: the copier ----
    docs_dir,     \* Path(config["docs_dir"])
    site_dir,     \* Path(config["site_dir"])
    fs,           \* the filesystem: existing path -> node
    pc,           \* "idle" | "iter" | "done" | "raised"
    run,          \* which invocation of on_post_build this is (0 before the first)
    stack,        \* the position of the rglob generator: one frame per directory
    err,          \* the error that left on_post_build, "none" if none
    printed,      \* the number of completion messages printed
    copies,       \* the copy2 calls of this run that returned: <<src, dest_path, written>>
    attempts,     \* the number of loop iterations (enumerated paths) of this run
    scanErr,      \* the directories whose listing failed inside rglob during this run
    fsStart,      \* fs when this run started
    fsFirst       \* fs when the first run started

pageVars == <<page_pc, src_path, html, result, prev_result>>
copyVars == <<docs_dir, site_dir, fs, pc, run, stack, err, printed, copies,
              attempts, scanErr, fsStart, fsFirst>>
vars == <<page_pc, src_path, html, result, prev_result,
          docs_dir, site_dir, fs, pc, run, stack, err, printed, copies,
          attempts, scanErr, fsStart, fsFirst>>

-----------------------------------------------------------------------------
(* Bounds of the model *)

\* the most segments joined into a page source path
MaxParts == 3
\* the longest HTML body drawn for a page
MaxHtmlLen == 2
\* the most seed entries a starting filesystem is built from
MaxSeeds == 4
\* the most invocations of on_post_build in one behaviour
MaxRuns == 2
\* the longest path (in components) the filesystem accepts: PATH_MAX, scaled down
MaxDepth == 4

-----------------------------------------------------------------------------
(* Strings *)

Last(s) == s[Len(s)]

Front(s) == SubSeq(s, 1, Len(s) - 1)

StartsWith(s, p) == Len(p) <= Len(s) /\ SubSeq(s, 1, Len(p)) = p

EndsWith(s, p) == Len(p) <= Len(s) /\ SubSeq(s, Len(s) - Len(p) + 1, Len(s)) = p

RECURSIVE Split(_, _)
\* str.split(sep): the pieces of s between the separators (empty pieces kept)
Split(s, sep) ==
    IF \A i \in 1..Len(s) : s[i] # sep THEN <<s>>
    ELSE LET i == CHOOSE k \in 1..Len(s) :
                     s[k] = sep /\ \A j \in 1..(k - 1) : s[j] # sep
         IN  <<SubSeq(s, 1, i - 1)>> \o Split(SubSeq(s, i + 1, Len(s)), sep)

RECURSIVE Join(_, _)
\* sep.join(parts)
Join(parts, sep) ==
    IF parts = <<>> THEN <<>>
    ELSE IF Len(parts) = 1 THEN parts[1]
    ELSE parts[1] \o <<sep>> \o Join(Tail(parts), sep)

\* the sequences over S of length at most n
SeqUpTo(S, n) == UNION {[1..k -> S] : k \in 0..n}

SelectNonEmpty(parts) == SelectSeq(parts, LAMBDA x : x # <<>> /\ x # <<".">>)

-----------------------------------------------------------------------------
(* on_page_content *)

INDEX_MD == <<"i", "n", "d", "e", "x", ".", "m", "d">>

svg_icon == <<
    "<", "s", "v", "g", " ", "x", "m", "l", "n", "s", "=", "\"", "h", "t",
    "t", "p", ":", "/", "/", "w", "w", "w", ".", "w", "3", ".", "o", "r",
    "g", "/", "2", "0", "0", "0", "/", "s", "v", "g", "\"", " ", "v", "i",
    "e", "w", "B", "o", "x", "=", "\"", "0", " ", "0", " ", "2", "4", " ",
    "2", "4", "\"", ">", "<", "p", "a", "t", "h", " ", "d", "=", "\"", "M",
    "1", "4", " ", "2", "H", "6", "a", "2", " ", "2", " ", "0", " ", "0",
    " ", "0", "-", "2", " ", "2", "v", "1", "6", "a", "2", " ", "2", " ",
    "0", " ", "0", " ", "0", " ", "2", " ", "2", "h", "1", "2", "a", "2",
    " ", "2", " ", "0", " ", "0", " ", "0", " ", "2", "-", "2", "V", "8",
    "l", "-", "6", "-", "6", "m", "4", " ", "1", "8", "H", "6", "V", "4",
    "h", "7", "v", "5", "h", "5", "v", "1", "1", "M", "1", "3", " ", "9",
    "V", "3", ".", "5", "L", "1", "8", ".", "5", " ", "9", "H", "1", "3",
    "Z", "\"", "/", ">", "<", "/", "s", "v", "g", ">" >>

\* '<div class="md-source-file"><a href="'
LinkHead == <<
    "<", "d", "i", "v", " ", "c", "l", "a", "s", "s", "=", "\"", "m", "d",
    "-", "s", "o", "u", "r", "c", "e", "-", "f", "i", "l", "e", "\"", ">",
    "<", "a", " ", "h", "r", "e", "f", "=", "\"" >>

\* '" title="View markdown source" class="md-icon">'
LinkMid == <<
    "\"", " ", "t", "i", "t", "l", "e", "=", "\"", "V", "i", "e", "w", " ",
    "m", "a", "r", "k", "d", "o", "w", "n", " ", "s", "o", "u", "r", "c",
    "e", "\"", " ", "c", "l", "a", "s", "s", "=", "\"", "m", "d", "-", "i",
    "c", "o", "n", "\"", ">" >>

\* '</a></div>\n'
LinkTail == <<
    "<", "/", "a", ">", "<", "/", "d", "i", "v", ">", "\n" >>

\* a name lookup that indexes the last component without checking there is one
PathName_unchecked(p) ==
    LET parts == SelectNonEmpty(Split(p, "/"))
    IN  IF parts = <<>> THEN "IndexError" ELSE Last(parts)

\* Path(p).name: the last component of p, the empty and the "." components
\* dropped; the empty string when nothing is left
PathName(p) ==
    LET parts == SelectNonEmpty(Split(p, "/"))
    IN  IF parts = <<>> THEN <<>> ELSE Last(parts)

\* the link built from the whole source path
MdUrl_fullPath(p) ==
    IF PathName(p) = INDEX_MD THEN INDEX_MD ELSE <<".", ".", "/">> \o p

\* the index test made on the whole source path
MdUrl_indexAtRootOnly(p) ==
    IF p = INDEX_MD THEN INDEX_MD ELSE <<".", ".", "/">> \o PathName(p)

\* the link without the step up
MdUrl_sameDir(p) ==
    IF PathName(p) = INDEX_MD THEN INDEX_MD ELSE PathName(p)

\* md_url of on_page_content
MdUrl(p) ==
    IF PathName(p) = INDEX_MD THEN INDEX_MD ELSE <<".", ".", "/">> \o PathName(p)

\* source_link of on_page_content
SourceLink(md_url) == LinkHead \o md_url \o LinkMid \o svg_icon \o LinkTail

\* the link put after the page
OnPageContentValue_appended(h, p) == h \o SourceLink(MdUrl(p))

\* the value on_page_content returns
OnPageContentValue(h, p) == SourceLink(MdUrl(p)) \o h

\* whether evaluating on_page_content raises for this path
Raises(p) == PathName(p) = "IndexError"

-----------------------------------------------------------------------------
(* The inputs of on_page_content *)

Segments == { <<>>, <<".">>, <<".", ".">>, <<"d">>, <<"a", ".", "m", "d">>, INDEX_MD }

\* source paths: up to MaxParts segments joined by "/"; an empty segment gives a
\* leading, a doubled or a trailing separator
SrcPaths == { Join(parts, "/") : parts \in SeqUpTo(Segments, MaxParts) }

ShortHtml == SeqUpTo({"<", "p"}, MaxHtmlLen)

\* HTML bodies: short ones, and the same behind a link fragment already in place
HtmlInputs ==
    ShortHtml \cup { SourceLink(u) \o h : u \in {INDEX_MD, <<".", ".", "/", "d">>}, h \in ShortHtml }

-----------------------------------------------------------------------------
(* The filesystem of the copier *)

\* component names; what a name spells decides whether "*.md" matches it
Names == {"s", "t", "a.md"}

NameChars(n) ==
    CASE n = "s" -> <<"s">>
      [] n = "t" -> <<"t">>
      [] n = "a.md" -> <<"a", ".", "m", "d">>

\* fnmatch(name, "*.md")
MatchMd(n) == EndsWith(NameChars(n), <<".", "m", "d">>)

\* nodes: a directory (plain, not listable, not writable) or a regular file
\* with one of two contents
DirKinds == {"dir", "dir_nolist", "dir_nowrite"}
FileKinds == {"f1", "f2"}

Kind(f, p) == IF p \in DOMAIN f THEN f[p] ELSE "none"

IsDir(f, p) == Kind(f, p) \in DirKinds

IsFile(f, p) == Kind(f, p) \in FileKinds

Parent(p) == Front(p)

IsPrefix(a, b) == Len(a) <= Len(b) /\ SubSeq(b, 1, Len(a)) = a

\* md_file.relative_to(docs_dir), for md_file below docs_dir
RelativeTo(p, base) == SubSeq(p, Len(base) + 1, Len(p))

\* the copy put beside the output root: the relative path's last component only
DestPath_flat(site, rel) == site \o <<Last(rel)>>

\* dest_path = site_dir / rel_path
DestPath(site, rel) == site \o rel

RECURSIVE Mkdir(_, _)
\* Path.mkdir(parents=True, exist_ok=True): the missing ancestors are made
\* first; a directory already there is not an error, a file there is
Mkdir(f, d) ==
    IF Len(d) > MaxDepth THEN [fs |-> f, err |-> "OSError"]
    ELSE IF IsDir(f, d) THEN [fs |-> f, err |-> "none"]
    ELSE IF IsFile(f, d) THEN [fs |-> f, err |-> "FileExistsError"]
    ELSE IF Kind(f, Parent(d)) = "none"
         THEN LET r == Mkdir(f, Parent(d))
              IN  IF r.err # "none" THEN r
                  ELSE [fs |-> r.fs @@ (d :> "dir"), err |-> "none"]
    ELSE IF IsFile(f, Parent(d)) THEN [fs |-> f, err |-> "NotADirectoryError"]
    ELSE IF Kind(f, Parent(d)) = "dir_nowrite" THEN [fs |-> f, err |-> "PermissionError"]
    ELSE [fs |-> f @@ (d :> "dir"), err |-> "none"]

\* where copy2 writes: into dst when dst is a directory
CopyTarget(f, src, dst) == IF IsDir(f, dst) THEN dst \o <<Last(src)>> ELSE dst

\* a copy that opens its target for exclusive creation
Copy2_noOverwrite(f, src, dst) ==
    LET target == CopyTarget(f, src, dst)
        fail(e) == [fs |-> f, err |-> e, target |-> target]
    IN  IF target = src THEN fail("SameFileError")
        ELSE IF ~IsFile(f, src) THEN fail("IsADirectoryError")
        ELSE IF Len(target) > MaxDepth THEN fail("OSError")
        ELSE IF Kind(f, target) # "none" THEN fail("FileExistsError")
        ELSE IF Kind(f, Parent(target)) = "dir_nowrite" THEN fail("PermissionError")
        ELSE [fs |-> (target :> f[src]) @@ f, err |-> "none", target |-> target]

\* shutil.copy2(src, dst): dst is replaced by dst/basename(src) when it is a
\* directory; the source is opened first, then the target is created or truncated
Copy2(f, src, dst) ==
    LET target == CopyTarget(f, src, dst)
        fail(e) == [fs |-> f, err |-> e, target |-> target]
    IN  IF target = src THEN fail("SameFileError")
        ELSE IF ~IsFile(f, src) THEN fail("IsADirectoryError")
        ELSE IF Len(target) > MaxDepth THEN fail("OSError")
        ELSE IF IsDir(f, target) THEN fail("IsADirectoryError")
        ELSE IF Kind(f, target) = "none" /\ Kind(f, Parent(target)) = "dir_nowrite"
             THEN fail("PermissionError")
        ELSE [fs |-> (target :> f[src]) @@ f, err |-> "none", target |-> target]

\* the entries of directory d: empty, with the failure noted, when d cannot be listed
Listable(f, d) == Kind(f, d) # "dir_nolist"

Entries(f, d) == IF Listable(f, d) THEN {n \in Names : d \o <<n>> \in DOMAIN f} ELSE {}

\* the "*.md" selector entering directory d: the snapshot of its matching entries
NewFrame(f, d) ==
    [dir |-> d, phase |-> "files", pending |-> {n \in Entries(f, d) : MatchMd(n)}]

-----------------------------------------------------------------------------
(* The starting states of the copier *)

DocsDir == <<"s">>

\* the output root: beside the source root, around it, inside it, or the same
SiteDirs == { <<"t">>, <<>>, <<"s", "t">>, <<"s">> }

\* what a starting filesystem may hold, as <<path, node>>
SeedEntries == {
    << <<"s", "a.md">>, "f1" >>,
    << <<"s", "a.md">>, "dir" >>,
    << <<"s", "s", "a.md">>, "f2" >>,
    << <<"s", "s">>, "dir_nolist" >>,
    << <<"s", "t">>, "dir" >>,
    << <<"s", "t">>, "f2" >>,
    << <<"s", "t", "a.md">>, "f1" >>,
    << <<"s", "s", "t", "a.md">>, "f1" >>,
    << <<"t">>, "dir" >>,
    << <<"t">>, "dir_nowrite" >>,
    << <<"t", "a.md">>, "f2" >>,
    << <<"t", "a.md">>, "dir" >>,
    << <<"t", "a.md", "a.md">>, "dir" >>,
    << <<"t", "s">>, "f1" >>,
    << <<"t", "s">>, "dir_nowrite" >>,
    << <<"t", "s", "a.md">>, "f1" >>,
    << <<"t", "t">>, "f1" >>,
    << <<"a.md">>, "f2" >> }

Prefixes(p) == {SubSeq(p, 1, k) : k \in 0..Len(p)}

\* a set of seeds describes a tree: one node per path, directories above every node
Consistent(Z) ==
    /\ \A x \in Z, y \in Z : x[1] = y[1] => x = y
    /\ \A x \in Z, y \in Z :
          (IsPrefix(x[1], y[1]) /\ x[1] # y[1]) => x[2] \in DirKinds

\* the filesystem holding the seeds Z, with plain directories above them
TreeOf(Z) ==
    LET paths == UNION {Prefixes(x[1]) : x \in Z} \cup {<<>>}
    IN  [p \in paths |->
            IF \E x \in Z : x[1] = p THEN (CHOOSE x \in Z : x[1] = p)[2] ELSE "dir"]

SeedSets == {Z \in SUBSET SeedEntries : Cardinality(Z) <= MaxSeeds /\ Consistent(Z)}

\* the filesystem the page hook runs beside
PageFs == TreeOf({ << <<"s", "a.md">>, "f1" >>, << <<"t">>, "dir" >> })

InitPageVars ==
    /\ page_pc = "idle"
    /\ src_path = <<>>
    /\ html = <<>>
    /\ result = <<>>
    /\ prev_result = <<>>

InitCopyVars(f, site) ==
    /\ docs_dir = DocsDir
    /\ site_dir = site
    /\ fs = f
    /\ pc = "idle"
    /\ run = 0
    /\ stack = <<>>
    /\ err = "none"
    /\ printed = 0
    /\ copies = {}
    /\ attempts = 0
    /\ scanErr = {}
    /\ fsStart = f
    /\ fsFirst = f

\* the copier: any seeded tree, any placement of the output root
Init ==
    /\ InitPageVars
    /\ \E Z \in SeedSets, site \in SiteDirs : InitCopyVars(TreeOf(Z), site)

\* the page hook: beside a fixed tree
InitPage ==
    /\ InitPageVars
    /\ InitCopyVars(PageFs, <<"t">>)

-----------------------------------------------------------------------------
(* on_page_content, as the host calls it *)

\* on_page_content(html, page, config, files)
OnPageContent ==
    /\ page_pc = "idle"
    /\ \E p \in SrcPaths, h \in HtmlInputs :
          /\ src_path' = p
          /\ html' = h
          /\ IF Raises(p)
             THEN page_pc' = "raised" /\ result' = PathName(p)
             ELSE page_pc' = "returned" /\ result' = OnPageContentValue(h, p)
    /\ prev_result' = <<>>
    /\ UNCHANGED copyVars

\* the same call once more, with the arguments of the last one
OnPageContentAgain ==
    /\ page_pc = "returned"
    /\ prev_result = <<>>
    /\ prev_result' = result
    /\ result' = OnPageContentValue(html, src_path)
    /\ UNCHANGED <<page_pc, src_path, html>>
    /\ UNCHANGED copyVars

NextPage == OnPageContent \/ OnPageContentAgain

SpecPage == InitPage /\ [][NextPage]_vars

-----------------------------------------------------------------------------
(* on_post_build, one step of its loop at a time.  rglob is a generator: it  *)
(* lists a directory when it reaches it, so what the loop body writes can    *)
(* show up in a later listing.  A frame of the stack is a directory being    *)
(* walked: first its entries matching "*.md" are yielded one by one, then    *)
(* its subdirectories are listed and walked in turn.  The order in which a   *)
(* listing returns its entries is the filesystem's choice.                   *)

Top == stack[Len(stack)]

SetTop(fr) == [stack EXCEPT ![Len(stack)] = fr]

\* lines 27-29: the host calls on_post_build; the loop asks rglob for its first
\* path.  A docs_dir that is no directory yields nothing.
OnPostBuild ==
    /\ pc \in {"idle", "done"}
    /\ run < MaxRuns
    /\ run' = run + 1
    /\ pc' = "iter"
    /\ err' = "none"
    /\ copies' = {}
    /\ attempts' = 0
    /\ fsStart' = fs
    /\ fsFirst' = IF run = 0 THEN fs ELSE fsFirst
    /\ IF IsDir(fs, docs_dir)
       THEN /\ stack' = <<NewFrame(fs, docs_dir)>>
            /\ scanErr' = IF Listable(fs, docs_dir) THEN {} ELSE {docs_dir}
       ELSE /\ stack' = <<>>
            /\ scanErr' = {}
    /\ UNCHANGED <<docs_dir, site_dir, fs, printed>>
    /\ UNCHANGED pageVars

\* lines 29-33: rglob yields the next matching entry of the directory on top,
\* and the loop body runs on it
CopyStep ==
    /\ pc = "iter"
    /\ stack # <<>>
    /\ Top.phase = "files"
    /\ \E n \in Top.pending :
          LET md_file   == Top.dir \o <<n>>
              rel_path  == RelativeTo(md_file, docs_dir)
              dest_path == DestPath(site_dir, rel_path)
              made      == Mkdir(fs, Parent(dest_path))
              copied    == Copy2(made.fs, md_file, dest_path)
          IN  /\ attempts' = attempts + 1
              /\ IF made.err # "none"
                 THEN /\ fs' = made.fs
                      /\ err' = made.err
                      /\ pc' = "raised"
                      /\ stack' = <<>>
                      /\ copies' = copies
                 ELSE IF copied.err # "none"
                 THEN /\ fs' = copied.fs
                      /\ err' = copied.err
                      /\ pc' = "raised"
                      /\ stack' = <<>>
                      /\ copies' = copies
                 ELSE /\ fs' = copied.fs
                      /\ err' = err
                      /\ pc' = pc
                      /\ stack' = SetTop([Top EXCEPT !.pending = @ \ {n}])
                      /\ copies' = copies \cup {<<md_file, dest_path, copied.target>>}
    /\ UNCHANGED <<docs_dir, site_dir, run, printed, scanErr, fsStart, fsFirst>>
    /\ UNCHANGED pageVars

\* the matching entries of the directory on top are used up: rglob lists the
\* directory again, for its subdirectories (none if the listing is refused)
ScanDirs ==
    /\ pc = "iter"
    /\ stack # <<>>
    /\ Top.phase = "files"
    /\ Top.pending = {}
    /\ stack' = SetTop([Top EXCEPT !.phase = "dirs",
                                   !.pending = {n \in Entries(fs, Top.dir) :
                                                   IsDir(fs, Top.dir \o <<n>>)}])
    /\ UNCHANGED <<docs_dir, site_dir, fs, pc, run, err, printed, copies, attempts,
                   scanErr, fsStart, fsFirst>>
    /\ UNCHANGED pageVars

\* rglob walks into the next subdirectory and lists its matching entries; a
\* refused listing is caught inside rglob and the directory is passed over
Descend ==
    /\ pc = "iter"
    /\ stack # <<>>
    /\ Top.phase = "dirs"
    /\ \E n \in Top.pending :
          LET d == Top.dir \o <<n>>
          IN  /\ stack' = Append(SetTop([Top EXCEPT !.pending = @ \ {n}]), NewFrame(fs, d))
              /\ scanErr' = IF Listable(fs, d) THEN scanErr ELSE scanErr \cup {d}
    /\ UNCHANGED <<docs_dir, site_dir, fs, pc, run, err, printed, copies, attempts,
                   fsStart, fsFirst>>
    /\ UNCHANGED pageVars

\* the subdirectories of the directory on top are used up
Ascend ==
    /\ pc = "iter"
    /\ stack # <<>>
    /\ Top.phase = "dirs"
    /\ Top.pending = {}
    /\ stack' = Front(stack)
    /\ UNCHANGED <<docs_dir, site_dir, fs, pc, run, err, printed, copies, attempts,
                   scanErr, fsStart, fsFirst>>
    /\ UNCHANGED pageVars

\* line 35: rglob is exhausted, the message is printed and on_post_build returns
Finish ==
    /\ pc = "iter"
    /\ stack = <<>>
    /\ printed' = printed + 1
    /\ pc' = "done"
    /\ UNCHANGED <<docs_dir, site_dir, fs, run, stack, err, copies, attempts,
                   scanErr, fsStart, fsFirst>>
    /\ UNCHANGED pageVars

Next == OnPostBuild \/ CopyStep \/ ScanDirs \/ Descend \/ Ascend \/ Finish

Spec == Init /\ [][Next]_vars

-----------------------------------------------------------------------------
(* Properties of on_page_content (checked under SpecPage) *)

\* the value of the href attribute of the link a result starts with: what
\* stands between LinkHead and the next double quote (or the end)
HrefOf(r) ==
    LET rest   == SubSeq(r, Len(LinkHead) + 1, Len(r))
        quotes == {i \in 1..Len(rest) : rest[i] = "\""}
        k      == IF quotes = {} THEN Len(rest) + 1
                  ELSE CHOOSE i \in quotes : \A j \in quotes : i <= j
    IN  SubSeq(rest, 1, k - 1)

UP == <<".", ".", "/">>

A_MD == <<"a", ".", "m", "d">>

\* C1: a page whose file name X is not "index.md" gets the href "../X", built
\* from the file name alone: the directories of the source path are dropped,
\* so the page of the same name at the top of the tree gets the same href
C1_NonIndexHref ==
    (page_pc = "returned" /\ PathName(src_path) # INDEX_MD) =>
        /\ StartsWith(result, LinkHead)
        /\ HrefOf(result) = UP \o PathName(src_path)
        /\ HrefOf(OnPageContentValue(html, PathName(src_path))) = HrefOf(result)

\* a page two directories down was linked by its file name alone
C1_Witness ==
    /\ page_pc = "returned"
    /\ src_path = Join(<< <<"d">>, <<"d">>, A_MD >>, "/")
    /\ HrefOf(result) = UP \o A_MD

\* C2: a page whose file name is "index.md", at any depth, gets the href
\* "index.md" itself, with no "../" and no directory
C2_IndexHref ==
    (page_pc = "returned" /\ PathName(src_path) = INDEX_MD) =>
        /\ StartsWith(result, LinkHead)
        /\ HrefOf(result) = INDEX_MD

\* an index page below a directory was linked as "index.md"
C2_Witness ==
    /\ page_pc = "returned"
    /\ src_path = Join(<< <<"d">>, INDEX_MD >>, "/")
    /\ HrefOf(result) = INDEX_MD

\* C3: the result is the link fragment followed at once by the HTML given,
\* unaltered; its length is the sum of the two lengths
C3_FragmentThenHtml ==
    page_pc = "returned" =>
        LET frag == LinkHead \o HrefOf(result) \o LinkMid \o svg_icon \o LinkTail
        IN  /\ StartsWith(result, frag)
            /\ SubSeq(result, Len(frag) + 1, Len(result)) = html
            /\ Len(result) = Len(frag) + Len(html)
            /\ HrefOf(result) \in {INDEX_MD, UP \o PathName(src_path)}

\* the HTML given already began with a link fragment, and was not empty after it
C3_Witness ==
    /\ page_pc = "returned"
    /\ StartsWith(html, LinkHead)
    /\ Len(html) > Len(SourceLink(INDEX_MD))
    /\ StartsWith(result, LinkHead)

\* C7: a call returns for every source path and HTML, changes nothing of the
\* filesystem or of the copier, and returns the same for the same arguments
C7_TotalAndPure ==
    /\ [][(page_pc = "idle" /\ page_pc' # "idle") =>
              (page_pc' = "returned" /\ UNCHANGED copyVars)]_vars
    /\ [][(page_pc = "returned" /\ prev_result' # prev_result) =>
              (result' = result /\ UNCHANGED copyVars)]_vars

\* the empty source path was given, and the call was repeated
C7_Witness ==
    /\ page_pc = "returned"
    /\ src_path = <<>>
    /\ prev_result # <<>>
    /\ prev_result = result

\* -- the host's side of C10: how it lays out the rendered pages --

\* a source path as the host gives it: relative, normalised, naming a *.md file
IsDocPath(p) ==
    LET parts == Split(p, "/")
    IN  /\ \A i \in 1..Len(parts) : parts[i] \notin {<<>>, <<".">>, <<".", ".">>}
        /\ EndsWith(Last(parts), <<".", "m", "d">>)
        /\ Len(Last(parts)) > 3

\* X of X.md
Stem(name) == SubSeq(name, 1, Len(name) - 3)

\* the directory of the page rendered from the document at rel: d/X.md is
\* rendered to d/X/index.html, d/index.md to d/index.html
RenderedDir(rel) ==
    IF Last(rel) = INDEX_MD THEN Front(rel) ELSE Front(rel) \o <<Stem(Last(rel))>>

RECURSIVE Walk(_, _)
\* a relative reference followed from directory base, segment by segment
Walk(base, segs) ==
    IF segs = <<>> THEN base
    ELSE IF Head(segs) = <<".", ".">>
         THEN Walk(IF base = <<>> THEN base ELSE Front(base), Tail(segs))
    ELSE IF Head(segs) \in {<<>>, <<".">>} THEN Walk(base, Tail(segs))
    ELSE Walk(Append(base, Head(segs)), Tail(segs))

ResolveHref(base, href) == Walk(base, Split(href, "/"))

DocsRoot == << <<"d", "o", "c", "s">> >>

SiteRoot == << <<"s", "i", "t", "e">> >>

-----------------------------------------------------------------------------
(* Properties of on_post_build (checked under Spec) *)

\* neither root lies in (or is) the other
Disjoint == ~IsPrefix(site_dir, docs_dir) /\ ~IsPrefix(docs_dir, site_dir)

\* the documents of tree f: the regular files below docs_dir named *.md
Docs(f) ==
    {p \in DOMAIN f : /\ IsPrefix(docs_dir, p)
                      /\ p # docs_dir
                      /\ MatchMd(Last(p))
                      /\ IsFile(f, p)}

\* where the document at p belongs below the output root
Mirror(p) == site_dir \o SubSeq(p, Len(docs_dir) + 1, Len(p))

\* the part of tree f at and below root
Below(f, root) == [p \in {q \in DOMAIN f : IsPrefix(root, q)} |-> f[p]]

\* the paths whose node differs between two trees
Changed(f, g) == {p \in DOMAIN f \cup DOMAIN g : Kind(f, p) # Kind(g, p)}

\* C4: after a run that completed without error, the output root holds, for
\* every document at relative path p of the source tree, a file at p with the
\* document's content, whatever was at p and above it before
C4_EveryDocumentMirrored ==
    (run = 1 /\ pc = "done" /\ Disjoint /\ scanErr = {}) =>
        \A p \in Docs(fsStart) : Kind(fs, Mirror(p)) = fsStart[p]

C6_FailurePropagates ==
    /\ (pc = "done" /\ Disjoint) => scanErr = {}
    /\ pc = "raised" =>
          /\ err # "none"
          /\ stack = <<>>
          /\ printed = run - 1
          /\ \A c \in copies : IsFile(fs, c[3])

\* holds: the part of C6 about mkdir and copy2: once they raise, the run has ended
\* with that error, the copies made stay, no message is printed
MkdirAndCopyErrorsPropagate ==
    /\ pc = "raised" =>
          /\ err # "none"
          /\ stack = <<>>
          /\ printed = run - 1
          /\ \A c \in copies : IsFile(fs, c[3])
    /\ pc = "done" => err = "none" /\ printed = run

\* C8: a run (here: one that completed) writes files only at the mirror paths
\* of documents and makes directories only above them; nothing else below the
\* output root, and nothing of the source tree, is created, changed or removed
C8_PathContainment ==
    (Disjoint /\ pc = "done") =>
        LET mirrors == {Mirror(p) : p \in Docs(fsStart)}
        IN  /\ \A c \in copies : c[3] \in mirrors
            /\ \A q \in Changed(fsStart, fs) :
                  \/ q \in mirrors /\ IsFile(fs, q)
                  \/ /\ q \notin DOMAIN fsStart
                     /\ IsDir(fs, q)
                     /\ \E m \in mirrors : IsPrefix(q, m) /\ q # m

\* C9: with the output root not inside the source root (here: the two roots
\* apart), a completed run has made one copy per document that the source tree
\* held when the run started, and has enumerated nothing else
C9_OneCopyPerDocument ==
    (pc = "done" /\ Disjoint) =>
        /\ Cardinality(copies) = Cardinality(Docs(fsStart))
        /\ attempts = Cardinality(copies)

\* holds: the same when every listing of the run was granted
CopiesCountedWhenListable ==
    (pc = "done" /\ Disjoint /\ scanErr = {}) =>
        /\ {c[1] : c \in copies} = Docs(fsStart)
        /\ attempts = Cardinality(copies)

\* does not hold: the same with the source root inside the output root, which
\* C9 allows.  The copy of docs/docs/t/a.md lands at docs/t/a.md, and is
\* enumerated in its turn when docs/t is listed after docs/docs was walked
CopiesCountedWhenSourceInsideOutput ==
    (pc = "done" /\ IsPrefix(site_dir, docs_dir) /\ site_dir # docs_dir /\ scanErr = {}) =>
        attempts = Cardinality(Docs(fsStart))


\* holds: C4 for the documents whose mirror path was no directory, in a run
\* whose listings were all granted
MirroredUnlessDirectoryInTheWay ==
    (run = 1 /\ pc = "done" /\ Disjoint /\ scanErr = {}) =>
        \A p \in Docs(fsStart) :
            IF IsDir(fsStart, Mirror(p))
            THEN Kind(fs, Mirror(p) \o <<Last(p)>>) = fsStart[p]
            ELSE Kind(fs, Mirror(p)) = fsStart[p]

\* holds: C8 with the file written below a directory found at the mirror path,
\* and the directories made above the mirror path of any entry named *.md
ContainedUpToDirectoryInTheWay ==
    Disjoint =>
        LET entries == {p \in DOMAIN fsStart :
                           IsPrefix(docs_dir, p) /\ p # docs_dir /\ MatchMd(Last(p))}
            mirrors == {Mirror(p) : p \in entries}
            inside  == {Mirror(p) \o <<Last(p)>> : p \in entries}
        IN  /\ \A c \in copies : c[3] \in mirrors \cup inside
            /\ \A q \in Changed(fsStart, fs) :
                  \/ q \in mirrors \cup inside /\ IsFile(fs, q)
                  \/ /\ q \notin DOMAIN fsStart
                     /\ IsDir(fs, q)
                     /\ \E m \in mirrors : IsPrefix(q, m) /\ q # m

=============================================================================
